---- MODULE Spec2Model ----
(***************************************************************************)
(* Model of the ParcelShopSelector React component                         *)
(* (src/browser/ParcelShopSelector/index.tsx and utils.ts): the per-mount  *)
(* validation / initialization effects, the process-wide script loader     *)
(* (loadScripts / loadMRWidget), the widget attach (initWidget) and the    *)
(* effect cleanup, together with the page globals they read and write      *)
(* (window.$, __MR_WIDGET_SCRIPTS_LOADED__, __MR_WIDGET_INITIALIZED__,     *)
(* the style element, the injected script tags and the Zone_Widget nodes). *)
(*                                                                         *)
(* One action is one event-loop task: a mount, a prop change, an unmount,  *)
(* the onload / onerror of one injected script tag (with the promise       *)
(* continuation it resolves, which runs as a microtask of the same task),  *)
(* or host code assigning window.$.                                        *)
(*                                                                         *)
(* Spec is the page with every event of mounting and script loading;       *)
(* SpecOnload is the page when no                                          *)
(* script load fails, with the onload events delivered eventually;         *)
(* SpecBrands is the page of a host that leaves window.$ alone and passes   *)
(* brand identifiers of every kind; SpecSelect is the page with the        *)
(* attached widgets in use (selections reported to the host callback);     *)
(* SpecNormalize is normalizeBrandId called on its own with every string   *)
(* of a bounded set; SpecShip is one call of createShipment                *)
(* with parameters and carrier responses of                                *)
(* every kind; SpecCallback is the page of a host that changes the         *)
(* onParcelShopSelected prop of its instances.                             *)
(***************************************************************************)
EXTENDS Integers, Sequences, FiniteSets, TLC

\* ------------------------------------------------------------------ bounds
NMounts == 2
MaxRenders == 2
MaxBrandLen == 9
MaxStatus == 2
MaxShipments == 2

Mounts == 1..NMounts

\* ------------------------------------------------------- strings (utils.ts)
\* A string is a tuple of one-character strings.
SPACE == " "
BDTEST == <<"B", "D", "T", "E", "S", "T">>
TAB == "\t"
UNDEFINED == "undefined"
NULL == "null"

\* The characters String.prototype.trim removes (of those the model uses).
WhiteSpace == {SPACE, TAB}

\* A trim that removes one leading white space character only.
trimStartOnce(s) ==
  IF s # <<>> /\ Head(s) \in WhiteSpace THEN Tail(s) ELSE s

RECURSIVE trimStart(_)
trimStart(s) ==
  IF s # <<>> /\ Head(s) \in WhiteSpace THEN trimStart(Tail(s)) ELSE s

RECURSIVE trimEnd(_)
trimEnd(s) ==
  IF s # <<>> /\ s[Len(s)] \in WhiteSpace THEN trimEnd(SubSeq(s, 1, Len(s) - 1)) ELSE s

trim(s) == trimEnd(trimStart(s))

\* Padding at the start of the string instead of its end.
RECURSIVE padStart(_, _)
padStart(s, n) ==
  IF Len(s) >= n THEN s ELSE padStart(<<SPACE>> \o s, n)

\* No padding at all.
padEndNothing(s, n) == s

RECURSIVE padEnd(_, _)
padEnd(s, n) ==
  IF Len(s) >= n THEN s ELSE padEnd(Append(s, SPACE), n)

BrandLength == 8
ErrRequired == "[ParcelShopSelector] brandIdAPI is required and must be a string"
\* The message thrown for a long identifier is ErrTooLong followed by
\* " (got <got>). Received: <received>": the length and the value of the
\* trimmed identifier.
ErrTooLong == "[ParcelShopSelector] brandIdAPI must be at most 8 characters"
ErrEmpty == "[ParcelShopSelector] brandIdAPI cannot be empty"
ErrJQuery == "Failed to load jQuery"
ErrMRWidget == "Failed to load Mondial Relay widget"
ErrNotAFunction == "window.$(...).MR_ParcelShopPicker is not a function"

\* What a call of normalizeBrandId threw: the message, and the two values
\* the "at most 8 characters" message interpolates.
Thrown(msg, got, received) ==
  [ok |-> FALSE, val |-> <<>>, err |-> msg, got |-> got, received |-> received]

\* A normalizeBrandId that cuts a long identifier to 8 characters.
normalizeBrandIdTruncates(brand) ==
  IF brand = <<>> THEN Thrown(ErrRequired, 0, <<>>)
  ELSE LET trimmed == trim(brand) IN
    IF Len(trimmed) = 0
      THEN Thrown(ErrEmpty, 0, <<>>)
    ELSE [ok |-> TRUE,
          val |-> padEnd(SubSeq(trimmed, 1, IF Len(trimmed) > BrandLength
                                              THEN BrandLength ELSE Len(trimmed)),
                         BrandLength),
          err |-> NULL, got |-> 0, received |-> <<>>]

\* normalizeBrandId: the returned value, or the Error thrown.
normalizeBrandId(brand) ==
  IF brand = <<>> THEN Thrown(ErrRequired, 0, <<>>)
  ELSE LET trimmed == trim(brand) IN
    IF Len(trimmed) > BrandLength
      THEN Thrown(ErrTooLong, Len(trimmed), trimmed)
    ELSE IF Len(trimmed) = 0
      THEN Thrown(ErrEmpty, 0, <<>>)
    ELSE [ok |-> TRUE, val |-> padEnd(trimmed, BrandLength), err |-> NULL,
          got |-> 0, received |-> <<>>]

validModes == {"LCC", "HOM", "24R", "24L", "XOH"}

\* validateDeliveryMode returns void and never throws: TRUE when it logs the
\* "Invalid deliveryMode ... Defaulting to 24R" console error.
validateDeliveryMode(mode) == mode # UNDEFINED /\ mode \notin validModes

\* ------------------------------------------------------------------- props
\* The props a host passes: brandIdAPI, deliveryMode, and "other", which
\* stands for weight / nbResults / defaultCountry / defaultPostcode /
\* allowedCountries (dependencies of the init effect only).
PropChoices ==
  { [brandIdAPI |-> UNDEFINED, deliveryMode |-> UNDEFINED, other |-> 0],
    [brandIdAPI |-> UNDEFINED, deliveryMode |-> "ZZZ", other |-> 0],
    [brandIdAPI |-> <<>>, deliveryMode |-> "HOM", other |-> 0],
    [brandIdAPI |-> UNDEFINED, deliveryMode |-> UNDEFINED, other |-> 1] }

\* The props of a first render: the defaults, or an invalid brand. The other
\* values reach an instance by a prop change.
MountChoices == {p \in PropChoices : p.other = 0 /\ p.deliveryMode # "ZZZ"}

\* The destructuring defaults of the component body.
Destructure(props) ==
  [brandIdAPI |-> IF props.brandIdAPI = UNDEFINED THEN BDTEST ELSE props.brandIdAPI,
   deliveryMode |-> IF props.deliveryMode = UNDEFINED THEN "24R" ELSE props.deliveryMode,
   other |-> props.other]

VARIABLES
  browser,          \* the execution context has a window and a document
  dollar,           \* window.$: "none" | "obj" (not callable) | "fn" (jQuery) | "fnmr" (jQuery with the MR plugin)
  scriptsLoaded,    \* window.__MR_WIDGET_SCRIPTS_LOADED__
  mrInitialized,    \* window.__MR_WIDGET_INITIALIZED__
  styleCount,       \* number of <style id="mr-widget-style"> elements appended to head
  jqInjected,       \* number of jQuery script tags appended to body
  mrInjected,       \* number of widget script tags appended to body
  jqLoaded,         \* a jQuery script tag injected by the component has fired onload
  widgetsAttached,  \* number of widget instances attached to a Zone_Widget node
  mounts,           \* per position in the document: the component instance mounted there
  inits,            \* the initializeWidget() calls made so far (a finished one is Done)
  last,             \* how the initializeWidget() call that ended in the latest step ended
  renders,          \* number of mounts and prop changes made by the host
  brandArg,         \* the argument of a direct call of normalizeBrandId
  returned,         \* what that call returned or threw (NotCalled before it)
  returnedAgain,    \* what normalizeBrandId returned or threw for the value returned
  ship              \* one createShipment call: its parameters, position, requests and result

vars == <<browser, dollar, scriptsLoaded, mrInitialized, styleCount, jqInjected,
          mrInjected, jqLoaded, widgetsAttached, mounts, inits, last, renders,
          brandArg, returned, returnedAgain, ship>>

DefaultProps == Destructure([brandIdAPI |-> UNDEFINED, deliveryMode |-> UNDEFINED, other |-> 0])

\* What the latest step did. injected: the script tag it appended to body
\* ("none", "jq", "mr"). result "none": no initializeWidget() call ended in
\* it. Otherwise last says which call ended and how:
\*   mount, epoch, props: the instance that made the call and the props its
\*           closure captured
\*   live:   that instance was still mounted when the call ended
\*   sync:   the call ended in the task that started it (loadScripts resolved
\*           without waiting for a script tag)
\*   result: "attached" (MR_ParcelShopPicker was called and returned),
\*           "silent" (initWidget returned at its jQuery check), "threw"
\*           (initWidget threw), "rejected" (loadScripts rejected)
\*   Brand, ColLivMod: the configuration passed to MR_ParcelShopPicker
\*   target: the position of the node the widget was attached to (0: none)
\*   cleared: initWidget cleared the content of a Zone_Widget node
\*   caught: the catch block of initializeWidget ran (the promise of the call
\*           is fulfilled; a failure that is not caught rejects it)
\* and for a step in which a widget reported a selection:
\*   selected: the data the widget passed to OnParcelShopSelected
\*   callback: the arguments of the calls of the host's onParcelShopSelected
\*   mount, epoch: the instance whose closure the widget called
NoEvent ==
  [result |-> "none", mount |-> 0, epoch |-> 0, props |-> DefaultProps,
   live |-> FALSE, sync |-> FALSE, Brand |-> <<>>, ColLivMod |-> NULL,
   target |-> 0, cleared |-> FALSE, injected |-> "none", caught |-> FALSE,
   selected |-> <<>>, callback |-> <<>>, handler |-> "none"]

\* The page at the start of a step, as one record threaded through the handlers.
World ==
  [browser |-> browser, dollar |-> dollar, scriptsLoaded |-> scriptsLoaded, mrInitialized |-> mrInitialized,
   styleCount |-> styleCount, jqInjected |-> jqInjected, mrInjected |-> mrInjected,
   jqLoaded |-> jqLoaded, widgetsAttached |-> widgetsAttached,
   mounts |-> mounts, inits |-> inits, last |-> NoEvent]

\* The page at the end of a step (w is evaluated once).
Commit(w) ==
  \E v \in {w} :
    /\ dollar' = v.dollar
    /\ scriptsLoaded' = v.scriptsLoaded
    /\ mrInitialized' = v.mrInitialized
    /\ styleCount' = v.styleCount
    /\ jqInjected' = v.jqInjected
    /\ mrInjected' = v.mrInjected
    /\ jqLoaded' = v.jqLoaded
    /\ widgetsAttached' = v.widgetsAttached
    /\ mounts' = v.mounts
    /\ inits' = v.inits
    /\ last' = v.last
    /\ UNCHANGED <<browser, brandArg, returned, returnedAgain, ship>>

\* A position of the document with no component instance; epoch counts the
\* instances mounted there so far.
NoMount(epoch) ==
  [mounted |-> FALSE, epoch |-> epoch, props |-> DefaultProps,
   isReady |-> FALSE, error |-> NULL, widgetInitialized |-> FALSE,
   hasCleanup |-> FALSE, started |-> 0, zone |-> <<>>, targetValue |-> <<>>,
   onParcelShopSelected |-> "handlerA"]

\* The first render of a component instance: useRef(false), useState(false),
\* useState(null), the Zone_Widget div (empty) and the Target_Widget input
\* (targetValue: its value). started counts the initializeWidget() calls of
\* the instance.
FirstRender(epoch, props) ==
  [mounted |-> TRUE, epoch |-> epoch, props |-> Destructure(props),
   isReady |-> FALSE, error |-> NULL, widgetInitialized |-> FALSE,
   hasCleanup |-> FALSE, started |-> 0, zone |-> <<>>, targetValue |-> <<>>,
   onParcelShopSelected |-> "handlerA"]

\* ------------------------------------------------------------ DOM and $
Truthy(d) == d # "none"
Callable(d) == d \in {"fn", "fnmr"}

\* An isBrowser that answers true in every context.
isBrowserAlways(w) == TRUE

\* isBrowser(): typeof window and typeof document are not 'undefined'.
isBrowser(w) == w.browser

\* What the component body of instance m returns: null outside a browser,
\* the error panel when the error state is set, else the Zone_Widget div and
\* the Target_Widget input.
RenderOutput(w, m) ==
  IF ~isBrowser(w) THEN "null"
  ELSE IF w.mounts[m].error # NULL THEN "error"
  ELSE "zone"

\* The Zone_Widget div of instance m is in the document.
ZonePresent(w, m) == w.mounts[m].mounted /\ RenderOutput(w, m) = "zone"

\* document.getElementById('Zone_Widget'): every instance renders the same
\* id, so the lookup returns the first such node in document order (0: none).
\* removed: positions whose node the current commit has already detached.
getElementById(w, removed) ==
  LET present == {m \in Mounts \ removed : ZonePresent(w, m)} IN
  IF present = {} THEN 0 ELSE CHOOSE m \in present : \A n \in present : m <= n

\* zone.innerHTML = '' on the node getElementById returns, if any.
clearZone(w, removed) ==
  LET zone == getElementById(w, removed) IN
  IF zone = 0 THEN w ELSE [w EXCEPT !.mounts[zone].zone = <<>>]

\* A cleanup that also forgets the loaded scripts.
effectCleanupResetsLoader(w, m, removed) ==
  LET w1 == clearZone(w, removed) IN
  [w1 EXCEPT !.mounts[m].widgetInitialized = FALSE, !.scriptsLoaded = FALSE]

\* A cleanup that also resets the global initialized flag.
effectCleanupResetsInitialized(w, m, removed) ==
  LET w1 == clearZone(w, removed) IN
  [w1 EXCEPT !.mounts[m].widgetInitialized = FALSE, !.mrInitialized = FALSE]

\* The cleanup returned by the init effect.
effectCleanup(w, m, removed) ==
  LET w1 == clearZone(w, removed) IN
  [w1 EXCEPT !.mounts[m].widgetInitialized = FALSE]

\* ------------------------------------------------------- initializations
\* One initializeWidget() call that has not ended: the instance (mount,
\* epoch), the props its closure captured, and the script tag its loadScripts
\* promise waits for (phase "jq" / "mr"; "resolved": the promise resolved).
NewInit(w, m) ==
  [mount |-> m, epoch |-> w.mounts[m].epoch, props |-> w.mounts[m].props,
   onParcelShopSelected |-> w.mounts[m].onParcelShopSelected, phase |-> "new"]

\* An initializeWidget() call that has ended.
Done ==
  [mount |-> 0, epoch |-> 0, props |-> DefaultProps,
   onParcelShopSelected |-> "handlerA", phase |-> "done"]

Pending(init) == init.phase \in {"jq", "mr"}

\* The instance that made the call is still the one mounted at its position.
Live(w, init) ==
  /\ w.mounts[init.mount].mounted
  /\ w.mounts[init.mount].epoch = init.epoch

\* A widget instance in a Zone_Widget node: the configuration the attach call
\* passed (Brand, ColLivMod) and the instance whose closure it calls back.
Widget(init, normalizedBrand) ==
  [mount |-> init.mount, epoch |-> init.epoch,
   Brand |-> normalizedBrand, ColLivMod |-> init.props.deliveryMode,
   onParcelShopSelected |-> init.onParcelShopSelected]

\* An injectCSS without the test for an existing mr-widget-style element.
injectCSSAlways(w) == [w EXCEPT !.styleCount = @ + 1]

injectCSS(w) ==
  IF w.styleCount > 0 THEN w ELSE [w EXCEPT !.styleCount = @ + 1]

\* loadMRWidget(resolve, reject) for the promise of init i.
loadMRWidget(w, i) ==
  IF w.scriptsLoaded
    THEN [w EXCEPT !.inits[i].phase = "resolved"]
    ELSE [w EXCEPT !.inits[i].phase = "mr", !.mrInjected = @ + 1,
                   !.last.injected = "mr"]

\* loadScripts without its two early exits: jQuery is injected on every call.
loadScriptsAlwaysInjects(w, i) ==
  [w EXCEPT !.inits[i].phase = "jq", !.jqInjected = @ + 1,
            !.last.injected = "jq"]

\* loadScripts that restarts from the first script whenever the scripts are
\* not all loaded: jQuery is injected even when window.$ is set.
loadScriptsFromScratch(w, i) ==
  IF w.scriptsLoaded /\ Truthy(w.dollar)
    THEN [w EXCEPT !.inits[i].phase = "resolved"]
    ELSE [w EXCEPT !.inits[i].phase = "jq", !.jqInjected = @ + 1,
                   !.last.injected = "jq"]

\* loadScripts that looks at the scripts-loaded flag only, never at window.$.
loadScriptsTestsFlagOnly(w, i) ==
  IF w.scriptsLoaded
    THEN [w EXCEPT !.inits[i].phase = "resolved"]
    ELSE [w EXCEPT !.inits[i].phase = "jq", !.jqInjected = @ + 1,
                   !.last.injected = "jq"]

\* The executor of the promise loadScripts() returns for init i.
loadScripts(w, i) ==
  IF w.scriptsLoaded /\ Truthy(w.dollar)
    THEN [w EXCEPT !.inits[i].phase = "resolved"]
  ELSE IF Truthy(w.dollar)
    THEN loadMRWidget(w, i)
  ELSE [w EXCEPT !.inits[i].phase = "jq", !.jqInjected = @ + 1,
                 !.last.injected = "jq"]

\* setError(msg) of an instance followed by the render it schedules and that
\* render's effects: the error panel replaces the Zone_Widget div and the
\* Target_Widget input, and the
\* init effect (error is a dependency) runs its cleanup and returns early.
\* Setting the same message is no state change and schedules nothing.
setError(w, m, msg) ==
  IF w.mounts[m].error = msg THEN w
  ELSE
    LET w1 == [w EXCEPT !.mounts[m].error = msg, !.mounts[m].zone = <<>>,
                        !.mounts[m].targetValue = <<>>]
        w2 == IF w1.mounts[m].hasCleanup THEN effectCleanup(w1, m, {}) ELSE w1
    IN [w2 EXCEPT !.mounts[m].hasCleanup = FALSE]

\* initWidget without the "clear previous widget instance" block.
initWidgetKeepsPrevious(w, init) ==
  IF ~Callable(w.dollar)
    THEN [w |-> [w EXCEPT !.last.result = "silent"], err |-> NULL]
  ELSE
    LET zone == getElementById(w, {})
        normalizedBrand == normalizeBrandId(init.props.brandIdAPI)
    IN
    IF ~normalizedBrand.ok
      THEN [w |-> [w EXCEPT !.last.result = "threw"], err |-> normalizedBrand.err]
    ELSE IF w.dollar # "fnmr"
      THEN [w |-> [w EXCEPT !.last.result = "threw"], err |-> ErrNotAFunction]
    ELSE
      LET w3 == IF zone = 0 THEN w
                ELSE [w EXCEPT !.mounts[zone].zone = Append(@, Widget(init, normalizedBrand.val)),
                               !.widgetsAttached = @ + 1]
      IN [w |-> [w3 EXCEPT !.last.result = "attached", !.last.target = zone,
                           !.last.Brand = normalizedBrand.val,
                           !.last.ColLivMod = init.props.deliveryMode,
                           !.mrInitialized = TRUE],
          err |-> NULL]

\* An initWidget that reads the onParcelShopSelected prop of the latest
\* render (as through a ref) instead of the one its closure captured.
initWidgetLatestCallback(w, init) ==
  IF ~Callable(w.dollar)
    THEN [w |-> [w EXCEPT !.last.result = "silent"], err |-> NULL]
  ELSE
    LET zone == getElementById(w, {})
        w1 == IF w.mrInitialized THEN clearZone(w, {}) ELSE w
        w2 == [w1 EXCEPT !.last.cleared = (w.mrInitialized /\ zone # 0)]
        normalizedBrand == normalizeBrandId(init.props.brandIdAPI)
        latest == [init EXCEPT !.onParcelShopSelected =
                                 w.mounts[init.mount].onParcelShopSelected]
    IN
    IF ~normalizedBrand.ok
      THEN [w |-> [w2 EXCEPT !.last.result = "threw"], err |-> normalizedBrand.err]
    ELSE IF w.dollar # "fnmr"
      THEN [w |-> [w2 EXCEPT !.last.result = "threw"], err |-> ErrNotAFunction]
    ELSE
      LET w3 == IF zone = 0 THEN w2
                ELSE [w2 EXCEPT !.mounts[zone].zone = Append(@, Widget(latest, normalizedBrand.val)),
                                !.widgetsAttached = @ + 1]
      IN [w |-> [w3 EXCEPT !.last.result = "attached", !.last.target = zone,
                           !.last.Brand = normalizedBrand.val,
                           !.last.ColLivMod = init.props.deliveryMode,
                           !.mrInitialized = TRUE],
          err |-> NULL]

\* initWidget() run by init: the new page, and the message of the error it
\* threw (NULL: it returned). last.target is the node the attach call was
\* made on, last.cleared whether a node's content was cleared.
initWidget(w, init) ==
  IF ~Callable(w.dollar)
    THEN [w |-> [w EXCEPT !.last.result = "silent"], err |-> NULL]
  ELSE
    LET zone == getElementById(w, {})
        w1 == IF w.mrInitialized THEN clearZone(w, {}) ELSE w
        w2 == [w1 EXCEPT !.last.cleared = (w.mrInitialized /\ zone # 0)]
        normalizedBrand == normalizeBrandId(init.props.brandIdAPI)
    IN
    IF ~normalizedBrand.ok
      THEN [w |-> [w2 EXCEPT !.last.result = "threw"], err |-> normalizedBrand.err]
    ELSE IF w.dollar # "fnmr"
      THEN [w |-> [w2 EXCEPT !.last.result = "threw"], err |-> ErrNotAFunction]
    ELSE
      LET w3 == IF zone = 0 THEN w2
                ELSE [w2 EXCEPT !.mounts[zone].zone = Append(@, Widget(init, normalizedBrand.val)),
                                !.widgetsAttached = @ + 1]
      IN [w |-> [w3 EXCEPT !.last.result = "attached", !.last.target = zone,
                           !.last.Brand = normalizedBrand.val,
                           !.last.ColLivMod = init.props.deliveryMode,
                           !.mrInitialized = TRUE],
          err |-> NULL]

\* A catch block that resets the ref and sets no error state.
catchErrorSwallows(w, init, msg) ==
  IF ~Live(w, init) THEN w
  ELSE [w EXCEPT !.mounts[init.mount].widgetInitialized = FALSE]

\* A catch block that also resets the global initialized flag.
catchErrorResetsInitialized(w, init, msg) ==
  IF ~Live(w, init) THEN [w EXCEPT !.mrInitialized = FALSE]
  ELSE
    LET w1 == [w EXCEPT !.mounts[init.mount].widgetInitialized = FALSE,
                        !.mrInitialized = FALSE]
    IN setError(w1, init.mount, msg)

\* The catch block of initializeWidget. The state and the ref of an instance
\* that is no longer mounted are not observable any more.
catchError(w, init, msg) ==
  IF ~Live(w, init) THEN [w EXCEPT !.last.caught = TRUE]
  ELSE
    LET w1 == [w EXCEPT !.mounts[init.mount].widgetInitialized = FALSE,
                        !.last.caught = TRUE]
    IN setError(w1, init.mount, msg)

\* F applied to the value of e, computed once.
Let(F(_), e) == CHOOSE r \in {F(v) : v \in {e}} : TRUE

\* An initializeWidget whose try block ends before initWidget(): a throw of
\* initWidget is not caught and rejects the promise of the call.
resumeInitAttachOutsideTry(w, i, rejected) ==
  LET init == w.inits[i]
      settled(w0) ==
        IF rejected # NULL
          THEN catchError([w0 EXCEPT !.last.result = "rejected"], init, rejected)
          ELSE initWidget(w0, init).w
  IN Let(settled,
         [w EXCEPT !.inits[i] = Done,
                   !.last = [NoEvent EXCEPT !.mount = init.mount,
                                            !.epoch = init.epoch,
                                            !.props = init.props,
                                            !.handler = init.onParcelShopSelected,
                                            !.live = Live(w, init)]])

\* initializeWidget resumed after "await loadScripts()" settled for init i:
\* rejected = NULL when the promise resolved.
resumeInit(w, i, rejected) ==
  LET init == w.inits[i]
      settled(w0) ==
        IF rejected # NULL
          THEN catchError([w0 EXCEPT !.last.result = "rejected"], init, rejected)
          ELSE Let(LAMBDA r : IF r.err # NULL THEN catchError(r.w, init, r.err) ELSE r.w,
                   initWidget(w0, init))
  IN Let(settled,
         [w EXCEPT !.inits[i] = Done,
                   !.last = [NoEvent EXCEPT !.mount = init.mount,
                                            !.epoch = init.epoch,
                                            !.props = init.props,
                                            !.handler = init.onParcelShopSelected,
                                            !.live = Live(w, init)]])

\* An init effect whose guard does not test the error state.
initEffectIgnoresError(w, m) ==
  LET c == w.mounts[m] IN
  IF ~isBrowser(w) \/ ~c.isReady \/ c.widgetInitialized
    THEN [w EXCEPT !.mounts[m].hasCleanup = FALSE]
  ELSE
    LET i == Len(w.inits) + 1
        w1 == [w EXCEPT !.mounts[m].widgetInitialized = TRUE,
                        !.mounts[m].hasCleanup = TRUE,
                        !.mounts[m].started = @ + 1,
                        !.inits = Append(@, NewInit(w, m))]
        w2 == loadScripts(injectCSS(w1), i)
    IN IF w2.inits[i].phase = "resolved"
         THEN [resumeInit(w2, i, NULL) EXCEPT !.last.sync = TRUE]
         ELSE w2

\* The init effect of instance m, run because a dependency changed.
initEffect(w, m) ==
  LET c == w.mounts[m] IN
  IF ~isBrowser(w) \/ ~c.isReady \/ c.widgetInitialized \/ c.error # NULL
    THEN [w EXCEPT !.mounts[m].hasCleanup = FALSE]
  ELSE
    LET i == Len(w.inits) + 1
        w1 == [w EXCEPT !.mounts[m].widgetInitialized = TRUE,
                        !.mounts[m].hasCleanup = TRUE,
                        !.mounts[m].started = @ + 1,
                        !.inits = Append(@, NewInit(w, m))]
        w2 == loadScripts(injectCSS(w1), i)
    IN IF w2.inits[i].phase = "resolved"
         THEN [resumeInit(w2, i, NULL) EXCEPT !.last.sync = TRUE]
         ELSE w2

\* The try / catch of the validation effect of instance m: NULL when it
\* calls setIsReady(true), else the message it passes to setError.
validationEffect(props) ==
  LET brand == normalizeBrandId(props.brandIdAPI)
      warned == validateDeliveryMode(props.deliveryMode)
  IN IF brand.ok THEN NULL ELSE brand.err

\* ------------------------------------------- createShipment (node side)
LoginPlaceholder == "fill in your login here"
PasswordPlaceholder == "fill in your password here"
ErrLoginMissing == "Login or Password is missing, please fill them in."
\* The message thrown for an error status is ErrHappened followed by the
\* messageField of the entry, in quotes, and a full stop.
ErrHappened == "An error happened: "
V1Endpoint == "https://api.mondialrelay.com/WebService"
V2Endpoint == "https://connect-api.mondialrelay.com/api/shipment"
CustomEndpoint == "https://custom.endpoint/api/shipment"

\* The parameters of a call: whether each schema accepts its value, the
\* credentials of the context, and the endpoint selectors ("": the empty
\* string, UNDEFINED: left out).
ShipParamChoices ==
  [contextValid : BOOLEAN, shipmentValid : BOOLEAN, outputValid : BOOLEAN,
   Login : {LoginPlaceholder, "BDTEST13"},
   Password : {PasswordPlaceholder, "secret"},
   apiVersion : {UNDEFINED, "V1", "V2"},
   apiUrl : {UNDEFINED, "", CustomEndpoint}]

\* What createShipment threw (kind "none": nothing); messageField is the
\* value the "An error happened" message interpolates.
ShipError(kind, message, messageField) ==
  [kind |-> kind, message |-> message, messageField |-> messageField]

NoShipError == ShipError("none", "", "")

\* Schema.parse(value): throws when the schema does not accept the value.
SchemaParse(accepted, schema) ==
  IF accepted THEN NoShipError ELSE ShipError("ValidationError", schema, "")

\* A createShipment that tests the credentials only.
validateShipParamsCredentialsOnly(params) ==
  IF params.Login = LoginPlaceholder \/ params.Password = PasswordPlaceholder
    THEN ShipError("Error", ErrLoginMissing, "")
    ELSE NoShipError

\* The statements of createShipment before the request is built: the first
\* error thrown (NoShipError: none).
validateShipParams(params) ==
  LET context == SchemaParse(params.contextValid, "ShipContextSchema")
      shipment == SchemaParse(params.shipmentValid, "ShipmentSchema")
      output == SchemaParse(params.outputValid, "ShipOutputOptionsSchema")
  IN IF context.kind # "none" THEN context
     ELSE IF shipment.kind # "none" THEN shipment
     ELSE IF output.kind # "none" THEN output
     ELSE IF params.Login = LoginPlaceholder \/ params.Password = PasswordPlaceholder
       THEN ShipError("Error", ErrLoginMissing, "")
     ELSE NoShipError

\* An endpoint choice that looks at apiVersion before apiUrl.
ShipmentEndpointVersionFirst(params) ==
  LET apiVersion == IF params.apiVersion = UNDEFINED THEN "V2" ELSE params.apiVersion IN
  IF apiVersion = "V1" THEN V1Endpoint
  ELSE IF params.apiUrl \notin {UNDEFINED, ""} THEN params.apiUrl
  ELSE V2Endpoint

\* API_URL: apiUrl || (apiVersion === 'V1' ? V1 : V2), with the destructuring
\* default apiVersion = 'V2'. An empty apiUrl is falsy.
ShipmentEndpoint(params) ==
  LET apiVersion == IF params.apiVersion = UNDEFINED THEN "V2" ELSE params.apiVersion IN
  IF params.apiUrl \notin {UNDEFINED, ""} THEN params.apiUrl
  ELSE IF apiVersion = "V1" THEN V1Endpoint
  ELSE V2Endpoint

\* String.prototype.toLowerCase and includes, on tuples of characters.
UpperCase == <<"A", "C", "E", "I", "L", "O", "R", "T", "W">>
LowerCase == <<"a", "c", "e", "i", "l", "o", "r", "t", "w">>

toLowerCase(s) ==
  [k \in 1..Len(s) |->
     IF \E u \in 1..Len(UpperCase) : UpperCase[u] = s[k]
       THEN LowerCase[CHOOSE u \in 1..Len(UpperCase) : UpperCase[u] = s[k]]
       ELSE s[k]]

includes(s, sub) ==
  \E i \in 1..(Len(s) - Len(sub) + 1) : SubSeq(s, i, i + Len(sub) - 1) = sub

\* The entries of statusListField: levelField (hasLevel FALSE: undefined)
\* and messageField.
StatusChoices ==
  { [hasLevel |-> TRUE, levelField |-> <<"W", "a", "r", "n", "i", "n", "g">>,
     messageField |-> "Service_Warning"],
    [hasLevel |-> TRUE, levelField |-> <<"E", "r", "r", "o", "r">>,
     messageField |-> "Service_Expedition_EchecRecuperationTarif"],
    [hasLevel |-> TRUE,
     levelField |-> <<"C", "r", "i", "t", "i", "c", "a", "l", "E", "R", "R", "O", "R">>,
     messageField |-> "Service_Critical"],
    [hasLevel |-> FALSE, levelField |-> <<>>, messageField |-> "Service_NoLevel"] }

\* The entries of shipmentsListField: shipmentNumberField and
\* labelListField.labelField.outputField (hasLabel FALSE: labelListField is
\* undefined).
ShipmentChoices ==
  { [shipmentNumberField |-> "31297410", hasLabel |-> TRUE,
     outputField |-> "https://label/31297410.pdf"],
    [shipmentNumberField |-> "31297411", hasLabel |-> TRUE,
     outputField |-> "https://label/31297411.pdf"],
    [shipmentNumberField |-> "31297412", hasLabel |-> FALSE, outputField |-> ""] }

\* response.data of the carrier API (hasStatusList FALSE: statusListField is
\* undefined).
ResponseChoices ==
  [hasStatusList : BOOLEAN,
   statusListField : UNION {[1..n -> StatusChoices] : n \in 0..MaxStatus},
   shipmentsListField : UNION {[1..n -> ShipmentChoices] : n \in 0..MaxShipments}]

\* e.levelField?.toLowerCase().includes('error')
IsErrorStatus(e) ==
  e.hasLevel /\ includes(toLowerCase(e.levelField), <<"e", "r", "r", "o", "r">>)

\* What createShipment returned or threw.
ShipResult(err, sendingNumber, etiquetteLink, rawResponse) ==
  [err |-> err, sendingNumber |-> sendingNumber, etiquetteLink |-> etiquetteLink,
   rawResponse |-> rawResponse]

NoShipResult == ShipResult(NoShipError, "", "", <<>>)

\* A response handling that reports the last error status.
handleResponseLastError(data) ==
  LET status == IF data.hasStatusList THEN data.statusListField ELSE <<>>
      errors == {k \in DOMAIN status : IsErrorStatus(status[k])}
  IN IF errors # {}
       THEN LET k == CHOOSE i \in errors : \A j \in errors : j <= i IN
            ShipResult(ShipError("Error", ErrHappened, status[k].messageField), "", "", <<>>)
     ELSE IF data.shipmentsListField = <<>> \/ ~data.shipmentsListField[1].hasLabel
       THEN ShipResult(ShipError("TypeError", "Cannot read properties of undefined", ""),
                       "", "", <<>>)
     ELSE ShipResult(NoShipError, data.shipmentsListField[1].shipmentNumberField,
                     data.shipmentsListField[1].outputField, <<data>>)

\* createShipment after the response arrived: statusListField?.find(...),
\* the throw, the reads of shipmentsListField[0] and of its label (a
\* TypeError when the list is empty or the entry has no labelListField) and
\* the return.
handleResponse(data) ==
  LET status == IF data.hasStatusList THEN data.statusListField ELSE <<>>
      errors == {k \in DOMAIN status : IsErrorStatus(status[k])}
  IN IF errors # {}
       THEN LET k == CHOOSE i \in errors : \A j \in errors : i <= j IN
            ShipResult(ShipError("Error", ErrHappened, status[k].messageField), "", "", <<>>)
     ELSE IF data.shipmentsListField = <<>> \/ ~data.shipmentsListField[1].hasLabel
       THEN ShipResult(ShipError("TypeError", "Cannot read properties of undefined", ""),
                       "", "", <<>>)
     ELSE ShipResult(NoShipError, data.shipmentsListField[1].shipmentNumberField,
                     data.shipmentsListField[1].outputField, <<data>>)

\* No createShipment call (pc "idle": not called yet, "awaiting": waiting
\* for the response of axios.post, "done": returned or threw). posted: the
\* requests passed to axios.post; response: the response data received.
NoShipment ==
  [pc |-> "idle",
   params |-> [contextValid |-> TRUE, shipmentValid |-> TRUE, outputValid |-> TRUE,
               Login |-> LoginPlaceholder, Password |-> PasswordPlaceholder,
               apiVersion |-> UNDEFINED, apiUrl |-> UNDEFINED],
   posted |-> <<>>, response |-> <<>>, result |-> NoShipResult]

\* ----------------------------------------------------------------- actions
NotCalled == Thrown("not called", 0, <<>>)

\* The page before any component is mounted.
PageInit ==
  /\ dollar = "none"
  /\ scriptsLoaded = FALSE
  /\ mrInitialized = FALSE
  /\ styleCount = 0
  /\ jqInjected = 0
  /\ mrInjected = 0
  /\ jqLoaded = FALSE
  /\ widgetsAttached = 0
  /\ mounts = [m \in Mounts |-> NoMount(0)]
  /\ inits = <<>>
  /\ last = NoEvent
  /\ renders = 0

\* The component runs in a browser or in a context without window and
\* document (a server render, a worker); the context does not change.
Init ==
  /\ PageInit
  /\ browser \in BOOLEAN
  /\ brandArg = BDTEST
  /\ returned = NotCalled
  /\ returnedAgain = NotCalled
  /\ ship = NoShipment

\* A component instance is mounted at position m with props p: first render,
\* the validation effect, the init effect (not ready: returns), then the
\* render the state update schedules and its init effect. Outside a browser
\* both effects return at their isBrowser test.
MountWorld(w, m, p) ==
  LET c == FirstRender(w.mounts[m].epoch + 1, p)
      w1 == [w EXCEPT !.mounts[m] = c]
      err == validationEffect(c.props)
  IN IF ~isBrowser(w) THEN initEffect(w1, m)
     ELSE IF err # NULL
       THEN setError(w1, m, err)
       ELSE initEffect([w1 EXCEPT !.mounts[m].isReady = TRUE], m)

Mount(m, p) ==
  /\ ~mounts[m].mounted
  /\ renders < MaxRenders
  /\ Commit(MountWorld(World, m, p))
  /\ renders' = renders + 1

\* The host re-renders instance m with props p that differ in a dependency
\* of the effects: the cleanup of the init effect, the validation effect when
\* brandIdAPI or deliveryMode changed, the init effect (with the isReady and
\* error of this render), then the render a state update schedules (and the
\* init effect of that render when isReady became true).
PropChangeWorld(w, m, p) ==
  LET old == w.mounts[m]
      np == Destructure(p)
      revalidate == np.brandIdAPI # old.props.brandIdAPI
                    \/ np.deliveryMode # old.props.deliveryMode
      w1 == [w EXCEPT !.mounts[m].props = np]
      w2 == IF old.hasCleanup THEN effectCleanup(w1, m, {}) ELSE w1
      err == IF revalidate THEN validationEffect(np) ELSE NULL
      w3 == initEffect(w2, m)
  IN IF ~revalidate \/ ~isBrowser(w) THEN w3
     ELSE IF err # NULL THEN setError(w3, m, err)
     ELSE IF w3.mounts[m].isReady THEN w3
     ELSE initEffect([w3 EXCEPT !.mounts[m].isReady = TRUE], m)

PropChange(m, p) ==
  /\ mounts[m].mounted
  /\ Destructure(p) # mounts[m].props
  /\ renders < MaxRenders
  /\ Commit(PropChangeWorld(World, m, p))
  /\ renders' = renders + 1

\* The functions a host passes as onParcelShopSelected.
CallbackChoices == {"handlerA", "handlerB"}

\* A re-render in which onParcelShopSelected counts as a dependency of the
\* init effect: its cleanup runs and the effect runs again.
CallbackChangeRerunsInit(w, m, cb) ==
  LET w1 == [w EXCEPT !.mounts[m].onParcelShopSelected = cb]
      w2 == IF w.mounts[m].hasCleanup THEN effectCleanup(w1, m, {}) ELSE w1
  IN initEffect(w2, m)

\* The host re-renders instance m with another onParcelShopSelected and
\* otherwise equal props: the function is in no dependency array, so no
\* effect and no cleanup runs; the render only makes new closures.
CallbackChangeWorld(w, m, cb) ==
  [w EXCEPT !.mounts[m].onParcelShopSelected = cb]

CallbackChange(m, cb) ==
  /\ mounts[m].mounted
  /\ cb # mounts[m].onParcelShopSelected
  /\ Commit(CallbackChangeWorld([World EXCEPT !.last = NoEvent], m, cb))
  /\ UNCHANGED renders

\* Instance m is unmounted: React runs the cleanup of the init effect (if the
\* last run returned one) and removes the instance's nodes. sync: the React
\* build runs the cleanup before it detaches the nodes (React 16); otherwise
\* the nodes are already detached when the cleanup runs (React 17 and later).
UnmountWorld(w, m, sync) ==
  LET w1 == IF w.mounts[m].hasCleanup
              THEN effectCleanup(w, m, IF sync THEN {} ELSE {m})
              ELSE w
  IN [w1 EXCEPT !.mounts[m] = NoMount(w.mounts[m].epoch)]

Unmount(m, sync) ==
  /\ mounts[m].mounted
  /\ Commit(UnmountWorld(World, m, sync))
  /\ UNCHANGED renders

\* jquery.onload of the tag init i injected: the script has defined window.$.
JQueryOnload(i) ==
  /\ inits[i].phase = "jq"
  /\ \E w1 \in {loadMRWidget([World EXCEPT !.dollar = "fn", !.jqLoaded = TRUE], i)} :
       Commit(IF w1.inits[i].phase = "resolved" THEN resumeInit(w1, i, NULL) ELSE w1)
  /\ UNCHANGED renders

\* jquery.onerror of the tag init i injected.
JQueryOnerror(i) ==
  /\ inits[i].phase = "jq"
  /\ Commit(resumeInit(World, i, ErrJQuery))
  /\ UNCHANGED renders

\* An mr.onload that is dropped when the instance that injected the tag is
\* no longer mounted: the load is cancelled with its instance.
MROnloadCancelledByUnmount(i) ==
  /\ inits[i].phase = "mr"
  /\ LET w1 == [World EXCEPT !.dollar = IF Callable(@) THEN "fnmr" ELSE @,
                             !.scriptsLoaded = TRUE]
     IN Commit(IF Live(World, inits[i]) THEN resumeInit(w1, i, NULL)
               ELSE [World EXCEPT !.inits[i] = Done])
  /\ UNCHANGED renders

\* An mr.onload that resolves without setting the scripts-loaded flag.
MROnloadKeepsFlag(i) ==
  /\ inits[i].phase = "mr"
  /\ \E w1 \in {[World EXCEPT !.dollar = IF Callable(@) THEN "fnmr" ELSE @]} :
       Commit(resumeInit(w1, i, NULL))
  /\ UNCHANGED renders

\* mr.onload of the tag init i injected: the plugin script has run (it
\* registers MR_ParcelShopPicker on the jQuery it finds, if any).
MROnload(i) ==
  /\ inits[i].phase = "mr"
  /\ \E w1 \in {[World EXCEPT !.dollar = IF Callable(@) THEN "fnmr" ELSE @,
                                !.scriptsLoaded = TRUE]} :
       Commit(resumeInit(w1, i, NULL))
  /\ UNCHANGED renders

\* mr.onerror of the tag init i injected.
MROnerror(i) ==
  /\ inits[i].phase = "mr"
  /\ Commit(resumeInit(World, i, ErrMRWidget))
  /\ UNCHANGED renders

\* Code of the host page assigns window.$ (its own jQuery, another library's
\* object, or jQuery.noConflict() removing it).
HostSetsDollar(v) ==
  /\ browser
  /\ v # dollar
  /\ dollar' = v
  /\ last' = NoEvent
  /\ UNCHANGED <<scriptsLoaded, mrInitialized, styleCount, jqInjected,
                 mrInjected, jqLoaded, widgetsAttached, mounts, inits, renders,
                 browser, brandArg, returned, returnedAgain, ship>>

\* The widget (Target: '#Target_Widget') or host code writes v into the
\* Target_Widget input of instance m.
TargetValues == {<<"0", "1">>, <<"0", "2">>}

TargetInput(m, v) ==
  /\ ZonePresent(World, m)
  /\ mounts[m].targetValue # v
  /\ Commit([World EXCEPT !.mounts[m].targetValue = v])
  /\ UNCHANGED renders

\* The carrier location data a widget reports (the fields of
\* ParcelShopSelected, of which two are kept).
SelectionChoices ==
  { [ID |-> <<"0", "1">>, Nom |-> "Relais A"],
    [ID |-> <<"0", "2">>, Nom |-> "Relais B"] }

\* { ...data, ...extra }: the fields of data, those of extra replacing them.
Spread(data, extra) ==
  [k \in DOMAIN data \cup DOMAIN extra |->
     IF k \in DOMAIN extra THEN extra[k] ELSE data[k]]

\* A closure that reads the first Target_Widget input of the document
\* instead of the input of its own instance.
targetRefFirstInDocument(w, widget) ==
  LET first == getElementById(w, {}) IN
  IF first # 0
    THEN [isNull |-> FALSE, value |-> w.mounts[first].targetValue]
    ELSE [isNull |-> TRUE, value |-> <<>>]

\* targetRef.current in the closure of the instance that attached widget:
\* its input element while that instance is mounted and renders it, else
\* null.
targetRef(w, widget) ==
  IF Live(w, widget) /\ ZonePresent(w, widget.mount)
    THEN [isNull |-> FALSE, value |-> w.mounts[widget.mount].targetValue]
    ELSE [isNull |-> TRUE, value |-> <<>>]

\* The OnParcelShopSelected closure passed to the attach call that created
\* widget, called with data: the arguments of the calls it makes of the
\* host's onParcelShopSelected.
OnParcelShopSelected(w, widget, data) ==
  LET ref == targetRef(w, widget) IN
  << Spread(data, [ParcelShopID |-> IF ref.isNull THEN <<>> ELSE ref.value]) >>

\* The user selects a parcel shop in widget k of the Zone_Widget node of
\* position m: the widget calls the OnParcelShopSelected of its configuration.
WidgetSelects(m, k, data) ==
  /\ k \in DOMAIN mounts[m].zone
  /\ LET widget == mounts[m].zone[k] IN
     Commit([World EXCEPT !.last.selected = <<data>>,
                          !.last.mount = widget.mount,
                          !.last.epoch = widget.epoch,
                          !.last.handler = widget.onParcelShopSelected,
                          !.last.callback = OnParcelShopSelected(World, widget, data)])
  /\ UNCHANGED renders

Next ==
  \/ \E m \in Mounts, p \in MountChoices : Mount(m, p)
  \/ \E m \in Mounts, p \in PropChoices : PropChange(m, p)
  \/ \E m \in Mounts, sync \in BOOLEAN : Unmount(m, sync)
  \/ \E i \in DOMAIN inits : JQueryOnload(i)
  \/ \E i \in DOMAIN inits : JQueryOnerror(i)
  \/ \E i \in DOMAIN inits : MROnload(i)
  \/ \E i \in DOMAIN inits : MROnerror(i)
  \/ \E v \in {"none", "obj", "fn"} : HostSetsDollar(v)

Spec == Init /\ [][Next]_vars

\* The page when no script load fails: every injected tag fires onload, and
\* the browser fires it eventually.
NextOnload ==
  \/ \E m \in Mounts, p \in MountChoices : Mount(m, p)
  \/ \E m \in Mounts, p \in PropChoices : PropChange(m, p)
  \/ \E m \in Mounts, sync \in BOOLEAN : Unmount(m, sync)
  \/ \E i \in DOMAIN inits : JQueryOnload(i)
  \/ \E i \in DOMAIN inits : MROnload(i)
  \/ \E v \in {"none", "obj", "fn"} : HostSetsDollar(v)

SpecOnload ==
  /\ Init
  /\ [][NextOnload]_vars
  /\ WF_vars(\E i \in DOMAIN inits : JQueryOnload(i))
  /\ WF_vars(\E i \in DOMAIN inits : MROnload(i))

\* The page of a host that never assigns window.$ and passes brand
\* identifiers of every kind: the test identifier, the same with white space
\* around it (10 characters), a 9-character identifier, the empty string.
TOOLONGID == <<"T", "O", "O", "L", "O", "N", "G", "I", "D">>
BDTEST_SPACED == <<SPACE, SPACE>> \o BDTEST \o <<SPACE, SPACE>>
BrandChoices ==
  { [brandIdAPI |-> b, deliveryMode |-> UNDEFINED, other |-> 0] :
      b \in {BDTEST, BDTEST_SPACED, TOOLONGID, <<>>} }

NextBrands ==
  \/ \E m \in Mounts, p \in BrandChoices : Mount(m, p)
  \/ \E m \in Mounts, p \in BrandChoices : PropChange(m, p)
  \/ \E m \in Mounts, sync \in BOOLEAN : Unmount(m, sync)
  \/ \E i \in DOMAIN inits : JQueryOnload(i)
  \/ \E i \in DOMAIN inits : JQueryOnerror(i)
  \/ \E i \in DOMAIN inits : MROnload(i)
  \/ \E i \in DOMAIN inits : MROnerror(i)

SpecBrands == Init /\ [][NextBrands]_vars

\* The page when no script load fails and the host leaves window.$ alone,
\* with the widgets in use: values written into the Target_Widget inputs
\* and selections reported by the attached widgets.
NextSelect ==
  \/ \E m \in Mounts, p \in MountChoices : Mount(m, p)
  \/ \E m \in Mounts, p \in PropChoices : PropChange(m, p)
  \/ \E m \in Mounts, sync \in BOOLEAN : Unmount(m, sync)
  \/ \E i \in DOMAIN inits : JQueryOnload(i)
  \/ \E i \in DOMAIN inits : MROnload(i)
  \/ \E m \in Mounts, v \in TargetValues : TargetInput(m, v)
  \/ \E m \in Mounts : \E k \in DOMAIN mounts[m].zone, data \in SelectionChoices :
       WidgetSelects(m, k, data)

SpecSelect == Init /\ [][NextSelect]_vars

\* The page of a host that re-renders its instances with other
\* onParcelShopSelected functions while users select parcel shops.
NextCallback ==
  \/ \E m \in Mounts, p \in MountChoices : Mount(m, p)
  \/ \E m \in Mounts, p \in PropChoices : PropChange(m, p)
  \/ \E m \in Mounts, sync \in BOOLEAN : Unmount(m, sync)
  \/ \E i \in DOMAIN inits : JQueryOnload(i)
  \/ \E i \in DOMAIN inits : MROnload(i)
  \/ \E m \in Mounts, cb \in CallbackChoices : CallbackChange(m, cb)
  \/ \E m \in Mounts : \E k \in DOMAIN mounts[m].zone, data \in SelectionChoices :
       WidgetSelects(m, k, data)

SpecCallback == Init /\ [][NextCallback]_vars

\* --------------------------------------------- createShipment on its own
pageVars == <<browser, dollar, scriptsLoaded, mrInitialized, styleCount,
              jqInjected, mrInjected, jqLoaded, widgetsAttached, mounts,
              inits, last, renders, brandArg, returned, returnedAgain>>

InitShip ==
  /\ PageInit
  /\ browser = FALSE
  /\ brandArg = BDTEST
  /\ returned = NotCalled
  /\ returnedAgain = NotCalled
  /\ \E p \in ShipParamChoices : ship = [NoShipment EXCEPT !.params = p]

\* createShipment(params) up to its await: it throws, or posts the request.
CreateShipment ==
  /\ ship.pc = "idle"
  /\ \E err \in {validateShipParams(ship.params)} :
       ship' = IF err.kind # "none"
                 THEN [ship EXCEPT !.pc = "done", !.result = ShipResult(err, "", "", <<>>)]
                 ELSE [ship EXCEPT !.pc = "awaiting",
                                   !.posted = Append(@, [url |-> ShipmentEndpoint(ship.params),
                                                         contentType |-> "application/xml"])]
  /\ UNCHANGED pageVars

\* The promise of axios.post resolves with a response whose data is data.
PostResolves(data) ==
  /\ ship.pc = "awaiting"
  /\ ship' = [ship EXCEPT !.pc = "done", !.response = <<data>>,
                          !.result = handleResponse(data)]
  /\ UNCHANGED pageVars

\* The promise of axios.post rejects (network error, HTTP error status).
PostRejects ==
  /\ ship.pc = "awaiting"
  /\ ship' = [ship EXCEPT !.pc = "done",
                          !.result = ShipResult(ShipError("AxiosError", "Request failed", ""),
                                                "", "", <<>>)]
  /\ UNCHANGED pageVars

NextShip ==
  \/ CreateShipment
  \/ \E data \in ResponseChoices : PostResolves(data)
  \/ PostRejects

SpecShip == InitShip /\ [][NextShip]_vars

\* ------------------------------------------- normalizeBrandId on its own
\* The strings a caller passes: every string of at most MaxBrandLen
\* characters over a letter and the two white space characters.
BrandChars == {"A", SPACE, TAB}
BrandInputs == UNION {[1..n -> BrandChars] : n \in 0..MaxBrandLen}

InitNormalize ==
  /\ PageInit
  /\ browser = TRUE
  /\ brandArg \in BrandInputs
  /\ returned = NotCalled
  /\ returnedAgain = NotCalled
  /\ ship = NoShipment

\* normalizeBrandId(brandArg) is called.
CallNormalize ==
  /\ returned = NotCalled
  /\ returned' = normalizeBrandId(brandArg)
  /\ UNCHANGED <<browser, dollar, scriptsLoaded, mrInitialized, styleCount,
                 jqInjected, mrInjected, jqLoaded, widgetsAttached, mounts,
                 inits, last, renders, brandArg, returnedAgain, ship>>

\* normalizeBrandId is called on the value the first call returned.
CallNormalizeAgain ==
  /\ returned.ok
  /\ returnedAgain = NotCalled
  /\ returnedAgain' = normalizeBrandId(returned.val)
  /\ UNCHANGED <<browser, dollar, scriptsLoaded, mrInitialized, styleCount,
                 jqInjected, mrInjected, jqLoaded, widgetsAttached, mounts,
                 inits, last, renders, brandArg, returned, ship>>

NextNormalize == CallNormalize \/ CallNormalizeAgain

SpecNormalize == InitNormalize /\ [][NextNormalize]_vars

\* ------------------------------------------------------------------ claims
AnyPending == \E i \in DOMAIN inits : Pending(inits[i])

\* C1: the jQuery script tag and the widget script tag are each injected at
\* most once per page, for any interleaving of mounts, unmounts, remounts
\* and script load completions.
C1_EachScriptInjectedAtMostOnce == jqInjected <= 1 /\ mrInjected <= 1

\* C2: once an instance is unmounted, the completion of its pending
\* initialization is discarded: it calls no attach, clears or writes no
\* Zone_Widget node and does not set the global initialized flag.
C2_CompletionAfterUnmountDiscarded ==
  (last.result # "none" /\ ~last.live) =>
     /\ last.result \notin {"attached", "threw"}
     /\ ~last.cleared
     /\ last.target = 0

\* C3: within one mount, script loading followed by attach is started at
\* most once, whatever props change later.
C3_InitStartedAtMostOncePerMount ==
  \A m \in Mounts : mounts[m].started <= 1

\* C4: a loadScripts call that arrives while another call's load is in flight
\* injects no script tag.
C4_JoinInjectsNothing ==
  [][(Len(inits') > Len(inits) /\ AnyPending)
       => (jqInjected' = jqInjected /\ mrInjected' = mrInjected)]_vars

\* C5: when deliveryMode is not one of the five valid modes, validation does
\* not fail and the ColLivMod passed to the attach call is the default "24R".
C5_InvalidModeFallsBackToDefault ==
  /\ \A p \in PropChoices :
       (validateDeliveryMode(p.deliveryMode) /\ normalizeBrandId(Destructure(p).brandIdAPI).ok)
         => validationEffect(Destructure(p)) = NULL
  /\ (last.result = "attached" /\ last.props.deliveryMode \notin validModes)
       => last.ColLivMod = "24R"

\* C6: the unmount of an instance leaves the Zone_Widget content of every
\* other, still mounted instance unchanged.
C6_UnmountLeavesOtherZones ==
  [][\A m \in Mounts :
       (mounts[m].mounted /\ ~mounts'[m].mounted)
         => \A n \in Mounts \ {m} : mounts'[n].zone = mounts[n].zone]_vars

\* C7: when $ is absent or not callable at attach time, the instance (if
\* still mounted) ends in its Error state, never with an empty widget region
\* and no error.
C7_MissingEntryPointIsAnError ==
  (last.result = "silent" /\ last.live) => mounts[last.mount].error # NULL

\* C8: for mount, attach, unmount, mount, attach, the content the first
\* mount produced is gone before the second attach, and afterwards exactly
\* one widget instance (the one of the second attach) is in the DOM target:
\* every Zone_Widget node holds at most one widget instance, and the node an
\* attach call was just made on holds exactly the instance of that call.
C8_OneWidgetAfterRemount ==
  /\ \A m \in Mounts : Len(mounts[m].zone) <= 1
  /\ (last.result = "attached" /\ last.target # 0)
       => mounts[last.target].zone =
            <<[mount |-> last.mount, epoch |-> last.epoch,
               Brand |-> last.Brand, ColLivMod |-> last.ColLivMod,
               onParcelShopSelected |-> last.handler]>>

\* The second instance mounted at a position has just attached its widget to
\* its own node, after clearing it; the scripts were loaded once and the
\* first instance had attached its widget to a node before.
C8_Witness ==
  /\ last.result = "attached"
  /\ last.live
  /\ last.epoch = 2
  /\ last.target = last.mount
  /\ last.cleared
  /\ widgetsAttached = 2
  /\ jqInjected = 1
  /\ mrInjected = 1

C10_DependencyOrderNeverParallel ==
  [][/\ mrInjected' > mrInjected
          => \/ \E i \in DOMAIN inits : inits[i].phase = "jq" /\ inits'[i].phase = "mr"
             \/ Truthy(dollar)
     /\ ~\E i, j \in DOMAIN inits' :
          inits'[i].phase = "jq" /\ inits'[j].phase = "mr"]_vars

\* Every script tag injected so far has fired onload or onerror, and the
\* scripts-loaded flag is not set: the last tag of every load has failed.
AfterFailedLoad ==
  /\ ~scriptsLoaded
  /\ ~AnyPending
  /\ jqInjected + mrInjected > 0

C12_LoadFailureSetsError ==
  [][\A i \in DOMAIN inits :
       (Pending(inits[i]) /\ inits'[i] = Done /\ last'.result = "rejected" /\ last'.live)
         => /\ mounts'[inits[i].mount].error =
                 (IF inits[i].phase = "jq" THEN ErrJQuery ELSE ErrMRWidget)
            /\ widgetsAttached' = widgetsAttached
            /\ mrInitialized' = mrInitialized
            /\ last'.target = 0
            /\ \A m \in Mounts : mounts'[m].zone = <<>> \/ mounts'[m].zone = mounts[m].zone]_vars

\* The widget script of a mounted instance has just failed to load and the
\* instance shows the widget load error.
C12_Witness ==
  /\ last.result = "rejected"
  /\ last.live
  /\ mounts[last.mount].mounted
  /\ mounts[last.mount].error = ErrMRWidget
  /\ widgetsAttached = 0

\* C13: a step that gives an instance a brand identifier failing validation
\* (its first render, or a render with changed props) leaves the instance in
\* the Error state with the validation message and without its Zone_Widget
\* node, and injects no CSS and no script tag and makes no attach call.
C13_ValidationBeforeSideEffects ==
  [][\A m \in Mounts :
       LET brand == normalizeBrandId(mounts'[m].props.brandIdAPI) IN
       (/\ mounts'[m].mounted
        /\ ~mounts[m].mounted \/ mounts'[m].props # mounts[m].props
        /\ ~brand.ok)
         => /\ mounts'[m].error = brand.err
            /\ mounts'[m].zone = <<>>
            /\ styleCount' = styleCount
            /\ jqInjected' = jqInjected
            /\ mrInjected' = mrInjected
            /\ widgetsAttached' = widgetsAttached
            /\ mrInitialized' = mrInitialized
            /\ last'.result \notin {"attached", "threw", "silent"}]_vars

\* C14: the unmount of an instance, in any phase, changes neither the
\* scripts-loaded flag nor the injected script tags nor the loads in flight
\* (nor window.$).
C14_UnmountKeepsLoadState ==
  [][(\E m \in Mounts : mounts[m].mounted /\ ~mounts'[m].mounted)
       => /\ scriptsLoaded' = scriptsLoaded
          /\ jqInjected' = jqInjected
          /\ mrInjected' = mrInjected
          /\ jqLoaded' = jqLoaded
          /\ dollar' = dollar
          /\ inits' = inits]_vars

\* Both scripts are loaded, a widget was attached, and the only instance
\* mounted so far has been unmounted.
C14_Witness ==
  /\ scriptsLoaded
  /\ jqInjected = 1
  /\ mrInjected = 1
  /\ widgetsAttached = 1
  /\ \A m \in Mounts : ~mounts[m].mounted
  /\ \E m \in Mounts : mounts[m].epoch = 1

\* Some script load is in flight whose instance has been unmounted.
OrphanLoad == \E i \in DOMAIN inits : Pending(inits[i]) /\ ~Live(World, inits[i])

\* C15: a script load in flight is not cancelled by the unmount of the
\* instance that started it: when the tags fire onload, the scripts-loaded
\* flag eventually becomes true.
C15_OrphanLoadCompletes == OrphanLoad ~> scriptsLoaded

\* The only initialization made so far lost its instance while its scripts
\* were loading, and its widget script has just fired onload: the flag is
\* set.
C15_Witness ==
  /\ scriptsLoaded
  /\ Len(inits) = 1
  /\ inits[1] = Done
  /\ last.result # "none"
  /\ ~last.live
  /\ jqInjected = 1
  /\ mrInjected = 1

\* C16: the scripts-loaded flag and the widget-initialized flag only move
\* forward: no step (mount, unmount, prop change, load failure, attach
\* failure, host code) takes either from true to false.
C16_FlagsOnlyMoveForward ==
  [][/\ scriptsLoaded => scriptsLoaded'
     /\ mrInitialized => mrInitialized']_vars

\* Both flags are true and an attach call has just thrown.
C16_Witness ==
  /\ scriptsLoaded
  /\ mrInitialized
  /\ last.result = "threw"
  /\ last.live
  /\ mounts[last.mount].error = ErrNotAFunction

\* C17: attach is clear-then-own: an attach call made when a widget is
\* already attached clears that widget first, so in every state at most one
\* widget instance is in the page: no Zone_Widget node holds two, and no two
\* nodes hold one each.
C17_AtMostOneWidgetAttached ==
  /\ \A m \in Mounts : Len(mounts[m].zone) <= 1
  /\ Cardinality({m \in Mounts : mounts[m].zone # <<>>}) <= 1

\* C18: when the attach call of initWidget throws, the instance (if still
\* mounted) ends the step in its Error state with the message thrown, no
\* widget is attached, and the global initialized flag keeps the value it
\* had before the call.
C18_FailedAttachKeepsFlag ==
  [][last'.result = "threw" =>
       /\ mrInitialized' = mrInitialized
       /\ widgetsAttached' = widgetsAttached
       /\ last'.target = 0
       /\ last'.live =>
            LET brand == normalizeBrandId(last'.props.brandIdAPI) IN
            mounts'[last'.mount].error = (IF brand.ok THEN ErrNotAFunction ELSE brand.err)]_vars

\* An attach call made after a first widget was attached has just thrown
\* (window.$ was replaced by a jQuery without the plugin): the instance shows
\* the error and the initialized flag is still true.
C18_Witness ==
  /\ last.result = "threw"
  /\ last.live
  /\ last.sync
  /\ mounts[last.mount].error = ErrNotAFunction
  /\ mrInitialized
  /\ widgetsAttached = 1
  /\ dollar = "fn"

\* C19: the attach call made for a mounted instance targets the Zone_Widget
\* node of that instance (the node initWidget clears is the node it attaches
\* to), never the node of another instance.
C19_AttachTargetsOwnNode ==
  (last.result = "attached" /\ last.live) => last.target = last.mount

\* s[i..j] is s without its leading and trailing white space.
HasCore(s, i, j) ==
  /\ i <= j
  /\ s[i] \notin WhiteSpace
  /\ s[j] \notin WhiteSpace
  /\ \A k \in 1..(i - 1) : s[k] \in WhiteSpace
  /\ \A k \in (j + 1)..Len(s) : s[k] \in WhiteSpace

\* C20: for a brand identifier whose trimmed length is between 1 and 8,
\* normalizeBrandId returns (does not throw) exactly 8 characters: the
\* trimmed identifier followed by spaces.
C20_PadsTrimmedToEight ==
  returned # NotCalled =>
    \A i, j \in 1..Len(brandArg) :
      (HasCore(brandArg, i, j) /\ j - i + 1 <= 8) =>
         /\ returned.ok
         /\ Len(returned.val) = 8
         /\ returned.val = SubSeq(brandArg, i, j) \o [k \in 1..(8 - (j - i + 1)) |-> SPACE]

\* A 4-character identifier with white space around it came back padded
\* with four spaces.
C20_Witness ==
  /\ brandArg = <<TAB, "A", SPACE, "A", "A", SPACE>>
  /\ returned.ok
  /\ returned.val = <<"A", SPACE, "A", "A", SPACE, SPACE, SPACE, SPACE>>

\* C21: normalizeBrandId is idempotent on every input it accepts: called on
\* the value it returned, it returns (does not throw) that same value.
C21_NormalizeIdempotent ==
  (returned.ok /\ returnedAgain # NotCalled) =>
     /\ returnedAgain.ok
     /\ returnedAgain.val = returned.val
     /\ returnedAgain = normalizeBrandId(brandArg)

\* An 8-character identifier, and an identifier given already padded, came
\* back unchanged from the second call.
C21_Witness ==
  /\ returnedAgain.ok
  /\ \/ brandArg = [k \in 1..8 |-> "A"]
     \/ brandArg = <<"A", TAB, "A", SPACE, SPACE, SPACE, SPACE, SPACE>>
  /\ returnedAgain.val = returned.val

\* C22: the empty brand identifier and a brand identifier of white space
\* only both fail with the same error, whose message is "brandIdAPI cannot
\* be empty".
C22_BlankFailsAsEmpty ==
  (returned # NotCalled /\ trim(brandArg) = <<>>) =>
     /\ ~returned.ok
     /\ returned.err = ErrEmpty

\* C23: a brand identifier whose length after trimming is greater than 8
\* fails with the "must be at most 8 characters" error (which reports the
\* trimmed length and value) and nothing is returned, so no truncated value
\* can reach the widget; an identifier that is longer than 8 characters only
\* because of the white space around it is accepted.
C23_TooLongFailsUntruncated ==
  returned # NotCalled =>
    \A i, j \in 1..Len(brandArg) :
      HasCore(brandArg, i, j) =>
        IF j - i + 1 > 8
          THEN /\ ~returned.ok
               /\ returned.val = <<>>
               /\ returned.err = ErrTooLong
               /\ returned.got = j - i + 1
               /\ returned.received = SubSeq(brandArg, i, j)
          ELSE returned.ok

\* A 9-character identifier was rejected with the length error.
C23_Witness ==
  /\ brandArg = [k \in 1..9 |-> "A"]
  /\ ~returned.ok
  /\ returned.err = ErrTooLong
  /\ returned.got = 9

\* C24: every attach call passes a Brand of exactly 8 characters (the
\* trimmed brandIdAPI its initialization captured, padded with spaces), and
\* so does every widget in the page, whatever brandIdAPI values the instance
\* received before the attach.
C24_AttachBrandHasEightChars ==
  /\ last.result = "attached" =>
       /\ Len(last.Brand) = 8
       /\ \E n \in 0..8 :
            last.Brand = trim(last.props.brandIdAPI) \o [k \in 1..n |-> SPACE]
  /\ \A m \in Mounts : \A k \in DOMAIN mounts[m].zone :
       Len(mounts[m].zone[k].Brand) = 8

\* An instance mounted with one brand identifier and re-rendered with the
\* identifier surrounded by white space has attached a widget with the
\* 8-character Brand, in its second initialization.
C24_Witness ==
  /\ last.result = "attached"
  /\ last.live
  /\ last.props.brandIdAPI = BDTEST_SPACED
  /\ last.Brand = BDTEST \o <<SPACE, SPACE>>
  /\ mounts[last.mount].started = 2
  /\ mounts[last.mount].zone # <<>>

\* C25: in a context without window or document the component is inert:
\* every instance renders null, its ready and error states keep their
\* initial values, no CSS and no script tag is injected, no initialization
\* is started and no attach call is made.
C25_InertOutsideBrowser ==
  ~browser =>
    /\ \A m \in Mounts :
         /\ mounts[m].mounted => RenderOutput(World, m) = "null"
         /\ ~ZonePresent(World, m)
         /\ ~mounts[m].isReady
         /\ mounts[m].error = NULL
         /\ mounts[m].started = 0
         /\ mounts[m].zone = <<>>
    /\ styleCount = 0
    /\ jqInjected = 0
    /\ mrInjected = 0
    /\ inits = <<>>
    /\ widgetsAttached = 0
    /\ ~scriptsLoaded
    /\ ~mrInitialized
    /\ last.result = "none"

\* Outside a browser, one instance was rendered with the default props and
\* another with an empty brand identifier.
C25_Witness ==
  /\ ~browser
  /\ \E m, n \in Mounts :
       /\ mounts[m].mounted
       /\ mounts[m].props = DefaultProps
       /\ mounts[n].mounted
       /\ mounts[n].props.brandIdAPI = <<>>

\* C26: the Error state is terminal for an instance: once its error message
\* is set, no step clears it while the instance stays mounted, whatever
\* props it receives (a corrected brand identifier included), the instance
\* starts no new initialization (script load followed by attach), and its
\* Zone_Widget node is not rendered again.
C26_ErrorIsTerminal ==
  [][\A m \in Mounts :
       (/\ mounts[m].mounted
        /\ mounts[m].error # NULL
        /\ mounts'[m].mounted
        /\ mounts'[m].epoch = mounts[m].epoch)
         => /\ mounts'[m].error # NULL
            /\ mounts'[m].started = mounts[m].started
            /\ ~ZonePresent(World, m)'
            /\ mounts'[m].zone = <<>>
            /\ \A i \in DOMAIN inits' :
                 (inits'[i].mount = m /\ inits'[i].epoch = mounts[m].epoch)
                   => i \in DOMAIN inits]_vars

\* An instance mounted with an empty brand identifier and re-rendered with
\* the default one: it is ready, still shows the validation error and has
\* started no initialization.
C26_Witness ==
  \E m \in Mounts :
    /\ mounts[m].mounted
    /\ mounts[m].props.brandIdAPI = BDTEST
    /\ mounts[m].isReady
    /\ mounts[m].error = ErrRequired
    /\ mounts[m].started = 0
    /\ styleCount = 0

\* C27: every failure of script loading (a rejected loadScripts promise) and
\* of the attach (a throw of initWidget) is caught by the catch block of
\* initializeWidget, which sets the error state of the instance when it is
\* still mounted: the promise of initializeWidget is fulfilled, never
\* rejected, and every call is either waiting for a script tag or ended.
C27_FailuresCaughtInsideInit ==
  /\ last.result \in {"rejected", "threw"} =>
       /\ last.caught
       /\ last.live =>
            /\ mounts[last.mount].error # NULL
            /\ ~mounts[last.mount].widgetInitialized
  /\ \A i \in DOMAIN inits : inits[i] = Done \/ Pending(inits[i])

\* The jQuery tag of a mounted instance has just failed to load: the
\* rejection was caught and the instance shows the jQuery load error.
C27_Witness ==
  /\ last.result = "rejected"
  /\ last.caught
  /\ last.live
  /\ mounts[last.mount].error = ErrJQuery
  /\ jqInjected = 1
  /\ mrInjected = 0

\* C28: each selection a widget reports calls the host callback exactly
\* once, with every field of the reported data unchanged plus ParcelShopID:
\* the value of the Target_Widget input of the instance that attached the
\* widget at the time of the call, or the empty string when that input is
\* not in the document any more.
C28_SelectionForwardedOnce ==
  last.selected # <<>> =>
    /\ Len(last.callback) = 1
    /\ LET data == last.selected[1]
           arg == last.callback[1]
           own == mounts[last.mount]
       IN /\ DOMAIN arg = DOMAIN data \cup {"ParcelShopID"}
          /\ \A f \in DOMAIN data : arg[f] = data[f]
          /\ arg.ParcelShopID =
               (IF own.mounted /\ own.epoch = last.epoch /\ own.error = NULL
                  THEN own.targetValue ELSE <<>>)

\* With two instances mounted and a value in each Target_Widget input, the
\* widget of the second instance reported a selection and the host callback
\* received the data with the value of the second input.
C28_Witness ==
  /\ last.selected # <<>>
  /\ last.mount = 2
  /\ mounts[1].mounted
  /\ mounts[2].mounted
  /\ mounts[1].targetValue = <<"0", "1">>
  /\ mounts[2].targetValue = <<"0", "2">>
  /\ last.callback = << [ID |-> <<"0", "1">>, Nom |-> "Relais A",
                         ParcelShopID |-> <<"0", "2">>] >>

\* C29: the style element mr-widget-style is injected at most once per
\* page, for any number of mounts, remounts and concurrent mounts, and no
\* step (an unmount in particular) removes it.
C29_StyleInjectedOnceNeverRemoved ==
  [][styleCount' <= 1 /\ styleCount <= styleCount']_vars

\* Two initializations have run (two instances, or one position mounted
\* twice), every instance is unmounted, and the page has one style element.
C29_Witness ==
  /\ styleCount = 1
  /\ Len(inits) = 2
  /\ \A m \in Mounts : ~mounts[m].mounted

\* C30: MR_ParcelShopPicker is invoked only after the loadScripts promise of
\* the same initialization resolved: in every step that makes an attach
\* call the scripts-loaded flag is true afterwards, and it either was true
\* before the step or the step is the onload of the widget script tag an
\* initialization was waiting for.
C30_AttachOnlyAfterScriptsLoaded ==
  [][last'.result = "attached" =>
       /\ scriptsLoaded'
       /\ \/ scriptsLoaded
          \/ \E i \in DOMAIN inits : inits[i].phase = "mr" /\ inits'[i] = Done]_vars

\* The first initialization of the page has attached its widget in the
\* onload of the widget script tag it injected.
C30_Witness ==
  /\ last.result = "attached"
  /\ ~last.sync
  /\ last.target = last.mount
  /\ scriptsLoaded
  /\ inits = <<Done>>
  /\ widgetsAttached = 1
  /\ dollar = "fnmr"

\* ---------------------------------------------------------------------
\* C31: the request of createShipment goes to the custom apiUrl whenever
\* one is provided, whatever apiVersion says; without an apiUrl it goes to
\* the V1 endpoint when apiVersion is 'V1' and to the V2 endpoint in every
\* other case, apiVersion left out included.
C31_EndpointPrecedence ==
  \A k \in DOMAIN ship.posted :
    /\ ship.params.apiUrl = CustomEndpoint => ship.posted[k].url = CustomEndpoint
    /\ ship.params.apiUrl = UNDEFINED =>
         ship.posted[k].url =
           (IF ship.params.apiVersion = "V1" THEN V1Endpoint ELSE V2Endpoint)

C31_Witness ==
  /\ Len(ship.posted) = 1
  /\ ship.params.apiUrl = CustomEndpoint
  /\ ship.params.apiVersion = "V1"
  /\ ship.posted[1].url = CustomEndpoint

\* ---------------------------------------------------------------------
\* C32: once createShipment was called with a context, a shipment or
\* output options its schema rejects, or with the placeholder Login or
\* Password, the call has failed with an error and no request was posted.
C32_InvalidNeverPosted ==
  ( /\ ship.pc # "idle"
    /\ \/ ~ship.params.contextValid
       \/ ~ship.params.shipmentValid
       \/ ~ship.params.outputValid
       \/ ship.params.Login = LoginPlaceholder
       \/ ship.params.Password = PasswordPlaceholder )
  => /\ ship.pc = "done"
     /\ ship.result.err.kind # "none"
     /\ ship.result.sendingNumber = "" /\ ship.result.rawResponse = <<>>
     /\ ship.posted = <<>>

C32_Witness ==
  /\ ship.pc = "done"
  /\ ship.params.contextValid /\ ship.params.shipmentValid
  /\ ~ship.params.outputValid
  /\ ship.params.Login # LoginPlaceholder /\ ship.params.Password # PasswordPlaceholder
  /\ ship.result.err.kind = "ValidationError"
  /\ ship.posted = <<>>

\* ---------------------------------------------------------------------
\* C38 as stated: when the response has a status entry whose level
\* contains 'error' in any case, createShipment fails with the message of
\* the first such entry and returns nothing; otherwise it returns the
\* number and the label link of the first shipment with the raw response.
HasErrorStatus(data) ==
  data.hasStatusList /\ \E k \in DOMAIN data.statusListField :
                          IsErrorStatus(data.statusListField[k])

FirstErrorStatus(data) ==
  data.statusListField[CHOOSE k \in DOMAIN data.statusListField :
     /\ IsErrorStatus(data.statusListField[k])
     /\ \A j \in 1..(k - 1) : ~IsErrorStatus(data.statusListField[j])]

FailedWithStatus(data) ==
  /\ ship.result.err.kind = "Error"
  /\ ship.result.err.message = ErrHappened
  /\ ship.result.err.messageField = FirstErrorStatus(data).messageField
  /\ ship.result.sendingNumber = "" /\ ship.result.etiquetteLink = ""
  /\ ship.result.rawResponse = <<>>

ReturnedFirstShipment(data) ==
  /\ ship.result.err.kind = "none"
  /\ data.shipmentsListField # <<>>
  /\ ship.result.sendingNumber = data.shipmentsListField[1].shipmentNumberField
  /\ ship.result.etiquetteLink = data.shipmentsListField[1].outputField
  /\ ship.result.rawResponse = <<data>>

C38_Original ==
  (ship.pc = "done" /\ ship.response # <<>>) =>
    IF HasErrorStatus(ship.response[1])
      THEN FailedWithStatus(ship.response[1])
      ELSE ReturnedFirstShipment(ship.response[1])

\* C38 as amended: with an error status the call fails with the message of
\* the first such entry and returns nothing; without one it returns the
\* number and the label link of the first shipment with the raw response
\* when the response lists a shipment that carries a label, and fails with
\* a TypeError, returning nothing, when it lists no shipment or the first
\* one has no label.
C38_ErrorStatusOrFirstShipment ==
  (ship.pc = "done" /\ ship.response # <<>>) =>
    LET data == ship.response[1] IN
    IF HasErrorStatus(data) THEN FailedWithStatus(data)
    ELSE IF data.shipmentsListField # <<>> /\ data.shipmentsListField[1].hasLabel
      THEN ReturnedFirstShipment(data)
    ELSE /\ ship.result.err.kind = "TypeError"
         /\ ship.result.sendingNumber = "" /\ ship.result.etiquetteLink = ""
         /\ ship.result.rawResponse = <<>>

C38_Witness ==
  /\ ship.pc = "done" /\ ship.response # <<>>
  /\ Len(ship.response[1].statusListField) = 2
  /\ ship.response[1].hasStatusList
  /\ ~IsErrorStatus(ship.response[1].statusListField[1])
  /\ ship.response[1].statusListField[2].messageField = "Service_Critical"
  /\ ship.response[1].shipmentsListField # <<>>
  /\ ship.result.err.messageField = "Service_Critical"

\* ---------------------------------------------------------------------
\* C33: a step that starts an initialization (and so calls loadScripts)
\* while the host provides window.$ injects no jQuery script tag; it
\* injects the widget script tag, once, exactly when the scripts-loaded
\* flag is not yet true.
C33_HostDollarSkipsJQuery ==
  [][(Len(inits') > Len(inits) /\ Truthy(dollar)) =>
       /\ jqInjected' = jqInjected
       /\ mrInjected' = mrInjected + (IF scriptsLoaded THEN 0 ELSE 1)]_vars

C33_Witness ==
  /\ Truthy(dollar)
  /\ last.injected = "mr"
  /\ jqInjected = 0
  /\ mrInjected = 1
  /\ \E i \in DOMAIN inits : inits[i].phase = "mr"

\* ---------------------------------------------------------------------
\* C34: whenever the promise of loadScripts has just resolved (the
\* initialization went on to initWidget), the window.$ of that moment is a
\* jQuery on which the Mondial Relay plugin script has been loaded.
C34_ResolvedImpliesEntryPoint ==
  last.result \in {"attached", "silent", "threw"} => dollar = "fnmr"

\* ---------------------------------------------------------------------
\* C36: no attach call is made on behalf of an instance that is in its
\* Error state: when an initialization of a still mounted instance has
\* just called MR_ParcelShopPicker (and set the global initialized flag),
\* that instance has no error.
C36_NoAttachAfterError ==
  (last.result = "attached" /\ last.live) => mounts[last.mount].error = NULL

\* ---------------------------------------------------------------------
\* C35, in the form a finite run refutes: when every injected script has
\* fired (no loadScripts promise is pending) and the only initialization a
\* validated, still mounted instance ever started has just ended, that
\* instance has had its attach call made or is in its Error state; it is
\* not left with neither and nothing more to come.
C35_SettledOnceScriptsFired ==
  \A m \in Mounts :
    ( /\ mounts[m].mounted /\ mounts[m].isReady
      /\ mounts[m].started = 1
      /\ last.result # "none" /\ last.mount = m /\ last.epoch = mounts[m].epoch
      /\ \A i \in DOMAIN inits : ~Pending(inits[i]) )
    => \/ last.result = "attached"
       \/ mounts[m].error # NULL

\* ---------------------------------------------------------------------
\* C37, first half: a re-render that changes only onParcelShopSelected of
\* an instance changes nothing else: no cleanup (the widgets stay in their
\* nodes, the ref and the flags keep their values), no script tag or style
\* injected, no initialization started or ended, no attach call.
CallbackOnlyChange(m) ==
  /\ mounts[m].mounted /\ mounts'[m].mounted
  /\ mounts'[m].epoch = mounts[m].epoch
  /\ mounts'[m].props = mounts[m].props
  /\ mounts'[m].onParcelShopSelected # mounts[m].onParcelShopSelected

WidgetUnchanged(m) ==
  /\ mounts' = [mounts EXCEPT ![m].onParcelShopSelected =
                                mounts'[m].onParcelShopSelected]
  /\ inits' = inits
  /\ styleCount' = styleCount
  /\ jqInjected' = jqInjected /\ mrInjected' = mrInjected
  /\ scriptsLoaded' = scriptsLoaded /\ mrInitialized' = mrInitialized
  /\ widgetsAttached' = widgetsAttached
  /\ last'.result = "none"

\* A selection is delivered to the function the selecting widget holds.
SelectionDelivered ==
  last'.selected # <<>> =>
    \E m \in Mounts : \E k \in DOMAIN mounts[m].zone :
      /\ mounts[m].zone[k].mount = last'.mount
      /\ mounts[m].zone[k].epoch = last'.epoch
      /\ mounts[m].zone[k].onParcelShopSelected = last'.handler
      /\ mounts' = mounts

\* C37 as stated: a change of only onParcelShopSelected changes nothing
\* else, and the function a widget delivers its selections to is the
\* onParcelShopSelected that was current when the widget was attached.
C37_Original ==
  [][ /\ \A m \in Mounts : CallbackOnlyChange(m) => WidgetUnchanged(m)
      /\ (last'.result = "attached" /\ last'.live /\ last'.target # 0) =>
           LET zone == mounts'[last'.target].zone IN
           zone[Len(zone)].onParcelShopSelected =
             mounts'[last'.mount].onParcelShopSelected
      /\ SelectionDelivered ]_vars

\* C37 as amended: a change of only onParcelShopSelected changes nothing
\* else, and the function a widget delivers its selections to is the
\* onParcelShopSelected of the render whose init effect started the
\* initialization that attached it: an initialization captures the
\* function current when it starts, keeps it while the scripts load, and
\* hands it to the widget it attaches.
C37_CallbackCapturedAtStart ==
  [][ /\ \A m \in Mounts : CallbackOnlyChange(m) => WidgetUnchanged(m)
      /\ \A i \in DOMAIN inits' :
           Pending(inits'[i]) =>
             IF i \in DOMAIN inits
               THEN inits'[i].onParcelShopSelected = inits[i].onParcelShopSelected
               ELSE inits'[i].onParcelShopSelected =
                      mounts'[inits'[i].mount].onParcelShopSelected
      /\ (last'.result = "attached" /\ last'.target # 0) =>
           LET zone == mounts'[last'.target].zone IN
           IF last'.sync
             THEN /\ last'.live
                  /\ zone[Len(zone)].onParcelShopSelected =
                       mounts'[last'.mount].onParcelShopSelected
             ELSE \E i \in DOMAIN inits :
                    /\ Pending(inits[i]) /\ inits'[i] = Done
                    /\ inits[i].mount = last'.mount /\ inits[i].epoch = last'.epoch
                    /\ zone[Len(zone)].onParcelShopSelected =
                         inits[i].onParcelShopSelected
      /\ SelectionDelivered ]_vars

\* A selection has just been delivered to handlerA, captured when the
\* initialization started, although the instance was re-rendered with
\* handlerB since.
C37_Witness ==
  /\ last.selected # <<>>
  /\ last.handler = "handlerA"
  /\ last.mount # 0
  /\ mounts[last.mount].mounted
  /\ mounts[last.mount].epoch = last.epoch
  /\ mounts[last.mount].onParcelShopSelected = "handlerB"

====
